---- MODULE Spec2Model ----
(***************************************************************************)
(* Model of olympics_dashboard.py: a Streamlit script that loads two CSV   *)
(* files, left-joins them on NOC, and on every user interaction re-runs    *)
(* from top to bottom, recomputing a filtered subset and a fixed menu of   *)
(* aggregate tables from the joined table and the current widget values.   *)
(*                                                                         *)
(* A DataFrame is a sequence of rows; a row is a function from column      *)
(* names to values.  The joined table carries the pandas index label in    *)
(* the column "index" so that rows keep their identity through filtering.  *)
(* Only the columns the script reads are modelled (ID, Name, Sex, Year,    *)
(* NOC, Sport, Event, Medal, region).  A missing value is NaN.             *)
(***************************************************************************)
EXTENDS Integers, Sequences, FiniteSets, TLC

\* ------------------------------------------------------------------ bounds

\* Largest number of rows of athlete_events.csv in the small input files.
MaxRows == 3
\* Largest number of script re-runs (user interactions) in one session.
MaxReruns == 2
\* Number of distinct athletes / sports in the large ranking inputs.
MaxNames == 11
\* Largest number of athletes of a ranking input whose last row has no medal.
MaxDropped == 3

\* ------------------------------------------------------- program constants

\* .head(10) of top_athletes and top_sports.
TopN == 10
\* countries[:5], sports[:5]: the default multiselect values.
DefaultCount == 5
\* max(years) - 4: the second default year.
YearStep == 4

NaN == "NaN"
medal_options == <<"All", "Gold", "Silver", "Bronze">>

\* ------------------------------------------------------------ value orders

\* Python compares strings by code point; the strings of the model, in that
\* order.  sorted() and the sorted group keys of groupby() are read off it.
StrOrder ==
    << "Ann", "Archery", "Athletics", "Badminton", "Basketball", "Bob",
       "Boxing", "Bronze", "CAN", "Cal", "Canada", "Canoeing", "Cycling",
       "Dee", "Diving", "Eve", "F", "Fay", "Fencing", "Football", "Gil",
       "Gold", "Golf", "Gymnastics", "Hal", "Hockey", "Hockey Team", "Ida",
       "Jon", "Judo", "Kim", "Leo", "M", "Mia", "Ned", "Rowing", "SGP",
       "Sailing", "Silver", "Swimming", "Swimming 100m", "Swimming Relay",
       "USA" >>
YearOrder == << 2004, 2008, 2012, 2016 >>

\* sorted(S) for a set of strings.
sorted(S) == SelectSeq(StrOrder, LAMBDA s : s \in S)
\* sorted(S) for a set of years.
sorted_years(S) == SelectSeq(YearOrder, LAMBDA y : y \in S)

Range(s) == { s[i] : i \in DOMAIN s }
Min2(a, b) == IF a < b THEN a ELSE b

\* ------------------------------------------------------ pandas primitives

\* Series.notna()
notna(v) == v # NaN
\* Series.isin(values)
isin(v, values) == v \in values
\* df[col].unique(): the distinct values of a column.
unique(df, col) == { df[i][col] : i \in DOMAIN df }
\* df[col].nunique(): distinct non-missing values.
nunique(df, col) == Cardinality({ v \in unique(df, col) : notna(v) })
\* Variant of notna_sum: counts the distinct medals instead of the rows.
notna_distinct(df, col) == Cardinality({ v \in unique(df, col) : notna(v) })
\* df[col].notna().sum()
notna_sum(df, col) == Len(SelectSeq(df, LAMBDA r : notna(r[col])))
\* Variant of head: one row too many.
head_one_more(df, n) == SubSeq(df, 1, Min2(n + 1, Len(df)))
\* df.head(n)
head(df, n) == SubSeq(df, 1, Min2(n, Len(df)))

\* Variant of merge_rows: how="inner", rows without a match are dropped.
RECURSIVE merge_rows_inner(_, _)
merge_rows_inner(left, right) ==
    IF left = << >> THEN << >>
    ELSE LET l == Head(left)
             m == SelectSeq(right, LAMBDA n : n.NOC = l.NOC)
         IN  [ k \in 1..Len(m) |-> l @@ [region |-> m[k].region] ]
             \o merge_rows_inner(Tail(left), right)

\* athletes_df.merge(noc_df, how="left", on="NOC"): every left row in order,
\* once per matching right row, or once with a missing region when the NOC
\* has no match; the result gets a fresh RangeIndex.
RECURSIVE merge_rows(_, _)
merge_rows(left, right) ==
    IF left = << >> THEN << >>
    ELSE LET l == Head(left)
             m == SelectSeq(right, LAMBDA n : n.NOC = l.NOC)
             j == IF m = << >>
                  THEN << l @@ [region |-> NaN] >>
                  ELSE [ k \in 1..Len(m) |-> l @@ [region |-> m[k].region] ]
         IN  j \o merge_rows(Tail(left), right)

merge_left(left, right) ==
    LET j == merge_rows(left, right)
    IN  [ k \in 1..Len(j) |-> j[k] @@ [index |-> k - 1] ]

\* load_data()
load_data(athletes_csv, noc_csv) == merge_left(athletes_csv, noc_csv)

\* Variant of group_keys: dropna=False, a missing key is a group of its own.
group_keys_keep_nan(df, by) ==
    IF by = "Year" THEN sorted_years(unique(df, by))
    ELSE sorted(unique(df, by) \ {NaN})
         \o (IF NaN \in unique(df, by) THEN << NaN >> ELSE << >>)

\* The sorted group keys of df.groupby(by): missing keys are dropped.
group_keys(df, by) ==
    IF by = "Year" THEN sorted_years(unique(df, by))
    ELSE sorted(unique(df, by) \ {NaN})

\* df.groupby(by)[col].count(): one entry per group key, in key order, with
\* the number of rows of the group whose col is present.
groupby_count(df, by, col) ==
    LET keys == group_keys(df, by)
    IN  [ k \in 1..Len(keys) |->
            [ key   |-> keys[k],
              value |-> Len(SelectSeq(df, LAMBDA r :
                            r[by] = keys[k] /\ notna(r[col]))) ] ]

\* All orders of a finite set, as sequences.
RECURSIVE Perms(_)
Perms(S) ==
    IF S = {} THEN { << >> }
    ELSE UNION { { << x >> \o p : p \in Perms(S \ {x}) } : x \in S }

MaxOf(s, col) == CHOOSE m \in { s[i][col] : i \in DOMAIN s } :
                     \A i \in DOMAIN s : s[i][col] <= m

\* sort_values(col, ascending=False) with the default kind="quicksort",
\* which is not a stable sort: the rows come out in non-increasing order of
\* col, and rows with equal col in an order that depends on the numpy build.
\* The operator is the set of results the call can return.
RECURSIVE sort_values_desc(_, _)
sort_values_desc(s, col) ==
    IF s = << >> THEN { << >> }
    ELSE LET m    == MaxOf(s, col)
             top  == { i \in DOMAIN s : s[i][col] = m }
             rest == SelectSeq(s, LAMBDA r : r[col] # m)
         IN  { [ k \in 1..Len(p) |-> s[p[k]] ] \o r :
                   p \in Perms(top), r \in sort_values_desc(rest, col) }

RECURSIVE SumSeq(_)
SumSeq(s) == IF s = << >> THEN 0 ELSE Head(s) + SumSeq(Tail(s))

\* ------------------------------------------------------- sidebar filters

\* years = sorted(olympics_df['Year'].unique())
years_of(df) == sorted_years(unique(df, "Year"))
\* countries = sorted(olympics_df['region'].dropna().unique())
countries_of(df) == sorted(unique(df, "region") \ {NaN})
\* sports = sorted(olympics_df['Sport'].unique())
sports_of(df) == sorted(unique(df, "Sport"))

\* default=[max(years), max(years)-4]
default_years(df) ==
    LET ys == years_of(df)
    IN  { ys[Len(ys)], ys[Len(ys)] - YearStep }
\* default=countries[:5]
default_countries(df) == Range(head(countries_of(df), DefaultCount))
\* default=sports[:5]
default_sports(df) == Range(head(sports_of(df), DefaultCount))

\* The script gets past its sidebar only if max(years) exists and every
\* default value is one of the options (st.multiselect raises otherwise).
script_runs(df) ==
    /\ df # << >>
    /\ default_years(df) \subseteq Range(years_of(df))

\* ----------------------------------------------------------- filter data

\* Variant of filter_data: the medal type is not applied.
filter_data_no_medal(df, sel_years, sel_countries, sel_sports, sel_medal, overall) ==
    IF overall THEN df
    ELSE SelectSeq(df, LAMBDA r :
             /\ isin(r.Year, sel_years)
             /\ isin(r.region, sel_countries)
             /\ isin(r.Sport, sel_sports))

\* Variant of filter_data: the overall flag is not consulted.
filter_data_always(df, sel_years, sel_countries, sel_sports, sel_medal, overall) ==
    LET f == SelectSeq(df, LAMBDA r :
                 /\ isin(r.Year, sel_years)
                 /\ isin(r.region, sel_countries)
                 /\ isin(r.Sport, sel_sports))
    IN  IF sel_medal # "All"
        THEN SelectSeq(f, LAMBDA r : r.Medal = sel_medal)
        ELSE f

\* Variant of filter_data: the three masks are combined with | instead of &.
filter_data_any(df, sel_years, sel_countries, sel_sports, sel_medal, overall) ==
    IF overall THEN df
    ELSE LET f == SelectSeq(df, LAMBDA r :
                      \/ isin(r.Year, sel_years)
                      \/ isin(r.region, sel_countries)
                      \/ isin(r.Sport, sel_sports))
         IN  IF sel_medal # "All"
             THEN SelectSeq(f, LAMBDA r : r.Medal = sel_medal)
             ELSE f

\* Lines 58-66: filtered_df.
filter_data(df, sel_years, sel_countries, sel_sports, sel_medal, overall) ==
    IF overall THEN df
    ELSE LET f == SelectSeq(df, LAMBDA r :
                      /\ isin(r.Year, sel_years)
                      /\ isin(r.region, sel_countries)
                      /\ isin(r.Sport, sel_sports))
         IN  IF sel_medal # "All"
             THEN SelectSeq(f, LAMBDA r : r.Medal = sel_medal)
             ELSE f

\* Variant of filter_advanced: only medal rows are kept.
filter_advanced_medal_rows(df, f_years, f_countries, f_sports) ==
    SelectSeq(df, LAMBDA r :
        /\ isin(r.Year, f_years)
        /\ isin(r.region, f_countries)
        /\ isin(r.Sport, f_sports)
        /\ notna(r.Medal))

\* Lines 206-210: filtered_advanced_df.
filter_advanced(df, f_years, f_countries, f_sports) ==
    SelectSeq(df, LAMBDA r :
        /\ isin(r.Year, f_years)
        /\ isin(r.region, f_countries)
        /\ isin(r.Sport, f_sports))

\* The three st.metric values of a frame.
summary_metrics(df) ==
    [ Total_Athletes |-> nunique(df, "ID"),
      Total_Events   |-> nunique(df, "Event"),
      Total_Medals   |-> notna_sum(df, "Medal") ]

\* ------------------------------------------------------------ aggregates

\* medals_df = olympics_df[olympics_df['Medal'].notna()]
medal_rows(df) == SelectSeq(df, LAMBDA r : notna(r.Medal))

\* Lines 74-76: groupby('region')['Medal'].value_counts().unstack(fill_value=0)
\* and the Total column.  One row per region with a medal row, one column per
\* medal value of those rows, absent combinations filled with 0.
tally_table(df) ==
    LET medals_df == medal_rows(df)
        regions   == group_keys(medals_df, "region")
        grouped   == SelectSeq(medals_df, LAMBDA r : notna(r.region))
        cols      == unique(grouped, "Medal")
        cell(g, m) == Len(SelectSeq(medals_df, LAMBDA r :
                          r.region = g /\ r.Medal = m))
        colseq    == sorted(cols)
        total(g)  == SumSeq([ k \in 1..Len(colseq) |-> cell(g, colseq[k]) ])
    IN  [ k \in 1..Len(regions) |->
            [ c \in {"region", "Total"} \cup cols |->
                IF c = "region" THEN regions[k]
                ELSE IF c = "Total" THEN total(regions[k])
                ELSE cell(regions[k], c) ] ]

\* Line 77: the results of sort_values('Total', ascending=False).reset_index().
overall_tally_of(df) == sort_values_desc(tally_table(df), "Total")

\* df if country == "Overall" else df[df['region'] == country]
country_rows(df, country) ==
    IF country = "Overall" THEN df
    ELSE SelectSeq(df, LAMBDA r : r.region = country)

\* Lines 113-115 and 124-126: medal rows grouped by by, counted, sorted
\* descending, first 10, index reset, 'Medal' renamed to 'Total Medals'.
top_entities(df, country, by) ==
    LET counts == groupby_count(medal_rows(country_rows(df, country)), by, "Medal")
    IN  { [ k \in DOMAIN t |-> (by :> t[k].key) @@ ("Total Medals" :> t[k].value) ] :
              t \in { head(s, TopN) : s \in sort_values_desc(counts, "value") } }

top_athletes_of(df, country) == top_entities(df, country, "Name")
top_sports_of(df, country) == top_entities(df, country, "Sport")

\* A cell of an unstacked table that no input row produced.
NoCell == << >>
\* Line 158: olympics_df.groupby(['Year', 'Sex'])['ID'].count().unstack().
\* One row per year, one column per sex of the table; a (year, sex) pair
\* with no row is a missing cell: unstack() is called without fill_value.
gender_trend_of(df) ==
    LET ys    == group_keys(df, "Year")
        sexes == unique(df, "Sex") \ {NaN}
        n(y, s) == Len(SelectSeq(df, LAMBDA r :
                       r.Year = y /\ r.Sex = s /\ notna(r.ID)))
        has(y, s) == \E i \in DOMAIN df : df[i].Year = y /\ df[i].Sex = s
    IN  [ k \in 1..Len(ys) |->
            [ c \in {"Year"} \cup sexes |->
                IF c = "Year" THEN ys[k]
                ELSE IF has(ys[k], c) THEN << n(ys[k], c) >> ELSE NoCell ] ]

\* Lines 235-236: medal rows of the advanced subset counted per region and
\* sorted descending by the count.
medal_by_country_of(adv) ==
    LET counts == groupby_count(medal_rows(adv), "region", "Medal")
    IN  sort_values_desc(
            [ k \in DOMAIN counts |->
                [ region |-> counts[k].key, Medal |-> counts[k].value ] ],
            "Medal")

\* Variant of frame_after_filter: the filter is applied to olympics_df itself.
frame_filtered_in_place(df, filtered) == filtered

\* Lines 58-66: the filter is applied to olympics_df.copy() and rebinds only
\* filtered_df, so the frame bound to olympics_df after it is the loaded one.
frame_after_filter(df, filtered) == df

\* ------------------------------------------------------------ input files

\* Rows of athlete_events.csv (the columns the script reads).
Athlete(id, name, sex, year, noc, sport, event, medal) ==
    [ ID |-> id, Name |-> name, Sex |-> sex, Year |-> year, NOC |-> noc,
      Sport |-> sport, Event |-> event, Medal |-> medal ]

AthleteCatalogue ==
    << Athlete("1", "Ann", "F", 2016, "USA", "Swimming", "Swimming 100m", "Gold"),
       Athlete("3", "Cal", "M", 2012, "CAN", "Hockey", "Hockey Team", "Silver"),
       Athlete("2", "Bob", "M", 2016, "USA", "Swimming", "Swimming Relay", NaN),
       Athlete("5", "Eve", "F", 2016, "SGP", "Swimming", "Swimming 100m", "Bronze"),
       Athlete("4", "Dee", "M", 2012, "CAN", "Hockey", "Hockey Team", "Silver"),
       Athlete("1", "Ann", "F", 2012, "USA", "Swimming", "Swimming 100m", "Gold"),
       Athlete("6", "Fay", "F", 2016, "CAN", "Swimming", "Swimming Relay", "Bronze") >>

\* noc_regions.csv: the committee code SGP has no row in it.
NocRegions ==
    << [ NOC |-> "CAN", region |-> "Canada" ],
       [ NOC |-> "USA", region |-> "USA" ] >>

\* The rows of the catalogue at the positions S, in catalogue order.
Pick(cat, S) ==
    LET idx == SelectSeq([ i \in 1..Len(cat) |-> i ], LAMBDA i : i \in S)
    IN  [ k \in 1..Len(idx) |-> cat[idx[k]] ]

\* The small input files: at most MaxRows catalogue rows on which the script
\* gets past its sidebar.
SmallFiles ==
    { f \in { Pick(AthleteCatalogue, S) :
                S \in { T \in SUBSET (1..Len(AthleteCatalogue)) :
                          Cardinality(T) <= MaxRows } } :
        script_runs(load_data(f, NocRegions)) }

\* The input files of the interactive sessions: MaxRows consecutive catalogue
\* rows on which the script gets past its sidebar.
SessionFiles ==
    { f \in { Pick(AthleteCatalogue, k..(k + MaxRows - 1)) :
                k \in 1..(Len(AthleteCatalogue) - MaxRows + 1) } :
        script_runs(load_data(f, NocRegions)) }

\* ------------------------------------------------------------------ state

VARIABLES
    athlete_events_csv,    \* the rows of athlete_events.csv
    noc_regions_csv,       \* the rows of noc_regions.csv
    olympics_df,           \* the joined table
    selected_years,        \* sidebar widgets
    selected_countries,
    selected_sports,
    selected_medal,
    show_overall,
    athlete_country,       \* per-chart country pickers
    sports_country,
    filter_years,          \* advanced filter widgets
    filter_countries,
    filter_sports,
    filtered_df,           \* what the last run computed
    overall_tally,
    metrics,
    top_athletes,
    top_sports,
    gender_trend,
    filtered_advanced_df,
    advanced_metrics,
    medal_by_country,
    section,               \* "loaded", the section that ran, or "run" (whole script)
    reruns                 \* re-runs of the script in this session

files == << athlete_events_csv, noc_regions_csv >>
widgets == << selected_years, selected_countries, selected_sports, selected_medal,
              show_overall, athlete_country, sports_country,
              filter_years, filter_countries, filter_sports >>
sidebar == << selected_years, selected_countries, selected_sports, selected_medal,
              show_overall >>
advanced == << filter_years, filter_countries, filter_sports >>
filter_outputs == << filtered_df, overall_tally, metrics >>
advanced_outputs == << filtered_advanced_df, advanced_metrics, medal_by_country >>
outputs == << filtered_df, overall_tally, metrics, top_athletes, top_sports,
              gender_trend, filtered_advanced_df, advanced_metrics, medal_by_country >>
vars == << files, olympics_df, widgets, outputs, section, reruns >>

\* A table or value the script has not computed (yet, or on this branch).
NotComputed == << >>

\* --------------------------------------------------- sections of the script

\* The sort behind a sorted table is a deterministic routine of the build: a
\* re-run that sorts the same input gets the table of the run before, and any
\* other run gets one of the orders sort_values can return.
Sorted(same_input, old, results, new) ==
    IF section = "run" /\ same_input THEN new = old ELSE new \in results

\* Lines 53-105: the sidebar values, filtered_df, and the branch on
\* show_overall: the overall medal tally and the metrics of the whole table,
\* or the metrics of filtered_df.
FilterAndDisplay(df, sy, sc, ss, sm, so) ==
    LET f == filter_data(df, sy, sc, ss, sm, so)
    IN  /\ selected_years' = sy
        /\ selected_countries' = sc
        /\ selected_sports' = ss
        /\ selected_medal' = sm
        /\ show_overall' = so
        /\ filtered_df' = f
        /\ olympics_df' = frame_after_filter(df, f)
        /\ IF so
           THEN /\ Sorted(show_overall, overall_tally, overall_tally_of(df),
                          overall_tally')
                /\ metrics' = summary_metrics(df)
           ELSE /\ overall_tally' = NotComputed
                /\ metrics' = summary_metrics(f)

\* Lines 110-116.
TopAthletes(df, c) ==
    /\ athlete_country' = c
    /\ Sorted(c = athlete_country, top_athletes, top_athletes_of(df, c),
              top_athletes')

\* Lines 121-126.
TopSports(df, c) ==
    /\ sports_country' = c
    /\ Sorted(c = sports_country, top_sports, top_sports_of(df, c),
              top_sports')

\* Line 158.
GenderTrend(df) == gender_trend' = gender_trend_of(df)

\* Lines 201-236.
AdvancedFilter(df, fy, fc, fs) ==
    LET adv == filter_advanced(df, fy, fc, fs)
    IN  /\ filter_years' = fy
        /\ filter_countries' = fc
        /\ filter_sports' = fs
        /\ filtered_advanced_df' = adv
        /\ advanced_metrics' = summary_metrics(adv)
        /\ Sorted(advanced = << fy, fc, fs >>, medal_by_country,
                  medal_by_country_of(adv), medal_by_country')

\* One execution of the script, top to bottom, with the given widget values.
\* load_data() is memoized by st.cache_data: it returns the table of the
\* first call.
RunScript(sy, sc, ss, sm, so, ac, spc, fy, fc, fs) ==
    LET df == load_data(athlete_events_csv, noc_regions_csv)
    IN  /\ FilterAndDisplay(df, sy, sc, ss, sm, so)
        /\ TopAthletes(df, ac)
        /\ TopSports(df, spc)
        /\ GenderTrend(df)
        /\ AdvancedFilter(df, fy, fc, fs)
        /\ section' = "run"
        /\ UNCHANGED files

\* ---------------------------------------------------------- the session

Toggle(S, x) == IF x \in S THEN S \ {x} ELSE S \cup {x}

\* The advanced multiselects take the sidebar values as their default: a
\* multiselect whose default changed is a new widget and shows that default.
AdvancedAfter(old_default, new_default, value) ==
    IF new_default = old_default THEN value ELSE new_default

\* A re-run after the user changed the sidebar.
SidebarRerun(sy, sc, ss, sm, so) ==
    /\ section = "run"
    /\ reruns < MaxReruns
    /\ reruns' = reruns + 1
    /\ RunScript(sy, sc, ss, sm, so, athlete_country, sports_country,
                 AdvancedAfter(selected_years, sy, filter_years),
                 AdvancedAfter(selected_countries, sc, filter_countries),
                 AdvancedAfter(selected_sports, ss, filter_sports))

\* A re-run after the user changed a widget of the main page.
MainRerun(ac, spc, fy, fc, fs) ==
    /\ section = "run"
    /\ reruns < MaxReruns
    /\ reruns' = reruns + 1
    /\ RunScript(selected_years, selected_countries, selected_sports,
                 selected_medal, show_overall, ac, spc, fy, fc, fs)

ChangeYears ==
    \E y \in Range(years_of(olympics_df)) :
        SidebarRerun(Toggle(selected_years, y), selected_countries,
                     selected_sports, selected_medal, show_overall)
ChangeCountries ==
    \E c \in Range(countries_of(olympics_df)) :
        SidebarRerun(selected_years, Toggle(selected_countries, c),
                     selected_sports, selected_medal, show_overall)
ChangeSports ==
    \E s \in Range(sports_of(olympics_df)) :
        SidebarRerun(selected_years, selected_countries,
                     Toggle(selected_sports, s), selected_medal, show_overall)
ChangeMedal ==
    \E m \in Range(medal_options) \ {selected_medal} :
        SidebarRerun(selected_years, selected_countries, selected_sports,
                     m, show_overall)
ToggleOverall ==
    \E so \in {~show_overall} :
        SidebarRerun(selected_years, selected_countries, selected_sports,
                     selected_medal, so)
PickAthleteCountry ==
    \E c \in ({"Overall"} \cup Range(countries_of(olympics_df))) \ {athlete_country} :
        MainRerun(c, sports_country, filter_years, filter_countries, filter_sports)
PickSportsCountry ==
    \E c \in ({"Overall"} \cup Range(countries_of(olympics_df))) \ {sports_country} :
        MainRerun(athlete_country, c, filter_years, filter_countries, filter_sports)
ChangeFilterYears ==
    \E y \in Range(years_of(olympics_df)) :
        MainRerun(athlete_country, sports_country,
                  Toggle(filter_years, y), filter_countries, filter_sports)
ChangeFilterCountries ==
    \E c \in Range(countries_of(olympics_df)) :
        MainRerun(athlete_country, sports_country,
                  filter_years, Toggle(filter_countries, c), filter_sports)
ChangeFilterSports ==
    \E s \in Range(sports_of(olympics_df)) :
        MainRerun(athlete_country, sports_country,
                  filter_years, filter_countries, Toggle(filter_sports, s))

\* The state after the first run: every widget shows its default.
Init ==
    /\ athlete_events_csv \in SessionFiles
    /\ noc_regions_csv = NocRegions
    /\ LET df == load_data(athlete_events_csv, noc_regions_csv)
           f  == filter_data(df, default_years(df), default_countries(df),
                             default_sports(df), "All", FALSE)
           adv == filter_advanced(df, default_years(df), default_countries(df),
                                  default_sports(df))
       IN  /\ olympics_df = frame_after_filter(df, f)
           /\ selected_years = default_years(df)
           /\ selected_countries = default_countries(df)
           /\ selected_sports = default_sports(df)
           /\ selected_medal = medal_options[1]
           /\ show_overall = FALSE
           /\ athlete_country = "Overall"
           /\ sports_country = "Overall"
           /\ filter_years = default_years(df)
           /\ filter_countries = default_countries(df)
           /\ filter_sports = default_sports(df)
           /\ filtered_df = f
           /\ overall_tally = NotComputed
           /\ metrics = summary_metrics(f)
           /\ top_athletes \in top_athletes_of(df, "Overall")
           /\ top_sports \in top_sports_of(df, "Overall")
           /\ gender_trend = gender_trend_of(df)
           /\ filtered_advanced_df = adv
           /\ advanced_metrics = summary_metrics(adv)
           /\ medal_by_country \in medal_by_country_of(adv)
    /\ section = "run"
    /\ reruns = 0

Next ==
    \/ ChangeYears
    \/ ChangeCountries
    \/ ChangeSports
    \/ ChangeMedal
    \/ ToggleOverall
    \/ PickAthleteCountry
    \/ PickSportsCountry
    \/ ChangeFilterYears
    \/ ChangeFilterCountries
    \/ ChangeFilterSports

Spec == Init /\ [][Next]_vars

\* ------------------------------------------- the sections, one at a time

\* The table is loaded and no section has run: the state the sections below
\* start from, for every small input file.
Loaded(f) ==
    /\ athlete_events_csv = f
    /\ noc_regions_csv = NocRegions
    /\ LET df == load_data(f, NocRegions)
       IN  /\ olympics_df = df
           /\ selected_years = default_years(df)
           /\ selected_countries = default_countries(df)
           /\ selected_sports = default_sports(df)
           /\ selected_medal = medal_options[1]
           /\ show_overall = FALSE
           /\ athlete_country = "Overall"
           /\ sports_country = "Overall"
           /\ filter_years = default_years(df)
           /\ filter_countries = default_countries(df)
           /\ filter_sports = default_sports(df)
    /\ filtered_df = NotComputed
    /\ overall_tally = NotComputed
    /\ metrics = NotComputed
    /\ top_athletes = NotComputed
    /\ top_sports = NotComputed
    /\ gender_trend = NotComputed
    /\ filtered_advanced_df = NotComputed
    /\ advanced_metrics = NotComputed
    /\ medal_by_country = NotComputed
    /\ section = "loaded"
    /\ reruns = 0

InitSections == \E f \in SmallFiles : Loaded(f)

\* Lines 53-105 for any value the sidebar widgets can take.
ApplyFilter ==
    /\ section = "loaded"
    /\ \E sy \in SUBSET Range(years_of(olympics_df)),
          sc \in SUBSET Range(countries_of(olympics_df)),
          ss \in SUBSET Range(sports_of(olympics_df)),
          sm \in Range(medal_options),
          so \in BOOLEAN :
            FilterAndDisplay(olympics_df, sy, sc, ss, sm, so)
    /\ section' = "filter"
    /\ UNCHANGED << files, athlete_country, sports_country, advanced,
                    top_athletes, top_sports, gender_trend, advanced_outputs,
                    reruns >>

\* Lines 110-116 for any value of the country picker.
ApplyTopAthletes ==
    /\ section = "loaded"
    /\ \E c \in {"Overall"} \cup Range(countries_of(olympics_df)) :
            TopAthletes(olympics_df, c)
    /\ section' = "top_athletes"
    /\ UNCHANGED << files, olympics_df, sidebar, sports_country, advanced,
                    filter_outputs, top_sports, gender_trend, advanced_outputs,
                    reruns >>

\* Lines 121-126 for any value of the country picker.
ApplyTopSports ==
    /\ section = "loaded"
    /\ \E c \in {"Overall"} \cup Range(countries_of(olympics_df)) :
            TopSports(olympics_df, c)
    /\ section' = "top_sports"
    /\ UNCHANGED << files, olympics_df, sidebar, athlete_country, advanced,
                    filter_outputs, top_athletes, gender_trend, advanced_outputs,
                    reruns >>

\* Line 158.
ApplyGenderTrend ==
    /\ section = "loaded"
    /\ GenderTrend(olympics_df)
    /\ section' = "gender_trend"
    /\ UNCHANGED << files, olympics_df, widgets, filter_outputs, top_athletes,
                    top_sports, advanced_outputs, reruns >>

\* Lines 201-236 for any value the advanced widgets can take.
ApplyAdvancedFilter ==
    /\ section = "loaded"
    /\ \E fy \in SUBSET Range(years_of(olympics_df)),
          fc \in SUBSET Range(countries_of(olympics_df)),
          fs \in SUBSET Range(sports_of(olympics_df)) :
            AdvancedFilter(olympics_df, fy, fc, fs)
    /\ section' = "advanced"
    /\ UNCHANGED << files, olympics_df, sidebar, athlete_country, sports_country,
                    filter_outputs, top_athletes, top_sports, gender_trend,
                    reruns >>

NextSections ==
    \/ ApplyFilter
    \/ ApplyTopAthletes
    \/ ApplyTopSports
    \/ ApplyGenderTrend
    \/ ApplyAdvancedFilter

SpecSections == InitSections /\ [][NextSections]_vars

\* ------------------------------------------------ the large ranking inputs

NameList ==
    << "Ann", "Bob", "Cal", "Dee", "Eve", "Fay", "Gil", "Hal", "Ida", "Jon",
       "Kim", "Leo", "Mia", "Ned" >>
SportList ==
    << "Archery", "Athletics", "Badminton", "Basketball", "Boxing", "Canoeing",
       "Cycling", "Diving", "Fencing", "Football", "Golf", "Gymnastics",
       "Hockey", "Judo", "Rowing", "Sailing", "Swimming" >>

\* A row of athlete i: athletes differ in name and sport, alternate between
\* two Games and every third one is Canadian.
RankingRow(i, medal) ==
    Athlete(ToString(i), NameList[i], IF i % 2 = 0 THEN "M" ELSE "F",
            IF i % 2 = 0 THEN 2012 ELSE 2016,
            IF i % 3 = 0 THEN "CAN" ELSE "USA",
            SportList[MaxNames + 2 - i], "Swimming 100m", medal)

\* A file in which athlete i has i rows, all with a medal except the last row
\* of the athletes in D: medal counts are tied in pairs, and with 1 in D an
\* athlete has rows and no medal.
RECURSIVE RankingRows(_, _)
RankingRows(i, D) ==
    IF i > MaxNames THEN << >>
    ELSE [ k \in 1..i |->
             RankingRow(i, IF k = i /\ i \in D THEN NaN ELSE "Gold") ]
         \o RankingRows(i + 1, D)

RankingFiles ==
    { RankingRows(1, D) :
        D \in { E \in SUBSET (1..MaxNames) : Cardinality(E) <= MaxDropped } }

InitRanking == \E f \in RankingFiles : Loaded(f)

NextRanking ==
    \/ ApplyTopAthletes
    \/ ApplyTopSports

SpecRanking == InitRanking /\ [][NextRanking]_vars

\* ------------------------------------------------------------- properties

\* The positions of the rows of df that pass the three set predicates.
Matching(df, ys, cs, ss) ==
    { i \in DOMAIN df :
        df[i].Year \in ys /\ df[i].region \in cs /\ df[i].Sport \in ss }
\* The positions of the rows of df with a medal.
WithMedal(df) == { i \in DOMAIN df : df[i].Medal # NaN }
\* sub holds exactly the rows of df at the positions I, each once.
ExactlyRows(sub, df, I) ==
    /\ Range(sub) = { df[i] : i \in I }
    /\ Len(sub) = Cardinality(I)
\* The sum of column col over the rows of a table.
ColumnSum(t, col) == SumSeq([ k \in DOMAIN t |-> t[k][col] ])
\* Some row of the joined table has a medal and no region.
HasUnmappedMedalRow ==
    \E i \in DOMAIN olympics_df :
        olympics_df[i].region = NaN /\ olympics_df[i].Medal # NaN

\* C1: with the overall flag off, filtered_df holds exactly the rows of the
\* joined table whose year, region and sport are in the selected sets and,
\* when the medal type is not All, whose medal is the selected one.
C1_FilterExact ==
    (section = "filter" /\ ~show_overall) =>
        ExactlyRows(filtered_df, olympics_df,
            { i \in Matching(olympics_df, selected_years, selected_countries,
                             selected_sports) :
                selected_medal # "All" => olympics_df[i].Medal = selected_medal })

\* C1 witness: Years={2016}, Countries={USA}, Sports={Swimming}, Medal=Gold
\* on the table (Ann Gold, Cal Silver, Bob no medal) keeps Ann's row only,
\* although Bob's row passes the three set predicates.
C1_Witness ==
    /\ section = "filter"
    /\ ~show_overall
    /\ athlete_events_csv = Pick(AthleteCatalogue, {1, 2, 3})
    /\ selected_years = {2016}
    /\ selected_countries = {"USA"}
    /\ selected_sports = {"Swimming"}
    /\ selected_medal = "Gold"
    /\ Len(filtered_df) = 1
    /\ filtered_df[1].index = 0
    /\ Matching(olympics_df, selected_years, selected_countries,
                selected_sports) = {1, 3}

\* C2: with the overall flag on, filtered_df is the whole joined table
\* whatever the sidebar sets and the medal type are.
C2_OverallBypass ==
    (section = "filter" /\ show_overall) =>
        /\ filtered_df = olympics_df
        /\ ExactlyRows(filtered_df, olympics_df, DOMAIN olympics_df)

\* C2 witness: overall mode with no year, no country and medal type Bronze
\* selected still yields every row.
C2_Witness ==
    /\ section = "filter"
    /\ show_overall
    /\ selected_years = {}
    /\ selected_countries = {}
    /\ selected_medal = "Bronze"
    /\ Len(olympics_df) >= 2
    /\ Len(filtered_df) = Len(olympics_df)

\* Some sidebar set is empty.
SidebarSetEmpty ==
    selected_years = {} \/ selected_countries = {} \/ selected_sports = {}
\* Some advanced-filter set is empty.
AdvancedSetEmpty ==
    filter_years = {} \/ filter_countries = {} \/ filter_sports = {}

\* C3 as stated: whenever the years, the countries or the sports set of the
\* selection is empty, filtered_df is empty.
C3_EmptySelectionAnyMode ==
    (section = "filter" /\ SidebarSetEmpty) => filtered_df = << >>

\* C3 amended: with the overall flag off, an empty years, countries or sports
\* set gives an empty filtered_df; the advanced filter, which has no overall
\* flag, gives an empty filtered_advanced_df for each of its empty sets.
C3_EmptySelectionFiltered ==
    /\ (section = "filter" /\ ~show_overall /\ SidebarSetEmpty)
           => filtered_df = << >>
    /\ (section = "advanced" /\ AdvancedSetEmpty)
           => filtered_advanced_df = << >>

\* C3 witness: only the years set is empty, every country and sport is
\* selected, and the subset of a non-empty table is empty.
C3_Witness ==
    /\ section = "filter"
    /\ ~show_overall
    /\ selected_years = {}
    /\ selected_countries = Range(countries_of(olympics_df))
    /\ selected_countries # {}
    /\ selected_sports = Range(sports_of(olympics_df))
    /\ selected_medal = "All"
    /\ olympics_df # << >>
    /\ filtered_df = << >>

\* C4: after every run of the script the joined table is the table
\* load_data built: same rows, same values, same row count.
C4_TableUnchanged ==
    /\ olympics_df = load_data(athlete_events_csv, noc_regions_csv)
    /\ Len(olympics_df) = Len(load_data(athlete_events_csv, noc_regions_csv))

\* C4 witness: two interactions later, with a medal type and a chart country
\* picked and a filtered subset smaller than the table.
C4_Witness ==
    /\ reruns >= 2
    /\ selected_medal # "All"
    /\ athlete_country # "Overall"
    /\ Len(filtered_df) < Len(olympics_df)

\* C5 as stated: the Total column of the medal tally, and the Medal column of
\* medals-by-country, sum to the number of rows of the input with a medal.
C5_TallySumAllMedalRows ==
    /\ (section = "filter" /\ show_overall) =>
           ColumnSum(overall_tally, "Total") = Cardinality(WithMedal(olympics_df))
    /\ section = "advanced" =>
           ColumnSum(medal_by_country, "Medal")
               = Cardinality(WithMedal(filtered_advanced_df))

\* C5 amended: the totals sum to the number of rows of the input that have a
\* medal and a region; medal rows without a region are in no country's total.
C5_TallySumRegionMedalRows ==
    /\ (section = "filter" /\ show_overall) =>
           ColumnSum(overall_tally, "Total")
               = Cardinality({ i \in WithMedal(olympics_df) :
                                 olympics_df[i].region # NaN })
    /\ section = "advanced" =>
           ColumnSum(medal_by_country, "Medal")
               = Cardinality({ i \in WithMedal(filtered_advanced_df) :
                                 filtered_advanced_df[i].region # NaN })

\* C5 witness: the overall tally of a table with a medal row that has no
\* region next to medal rows that have one.
C5_Witness ==
    /\ section = "filter"
    /\ show_overall
    /\ HasUnmappedMedalRow
    /\ Len(overall_tally) >= 2
    /\ ColumnSum(overall_tally, "Total") = Cardinality(WithMedal(olympics_df)) - 1

\* C6 as stated: gender_trend has one row per year of the table and one
\* column per sex, and the cell of a (year, sex) pair holds the number of
\* rows of that pair, 0 when there is none.
C6_YearlyCountZeroFilled ==
    section = "gender_trend" =>
        LET ys    == { olympics_df[i].Year : i \in DOMAIN olympics_df }
            sexes == { olympics_df[i].Sex : i \in DOMAIN olympics_df }
        IN  /\ Len(gender_trend) = Cardinality(ys)
            /\ { gender_trend[k].Year : k \in DOMAIN gender_trend } = ys
            /\ \A k \in DOMAIN gender_trend :
                 /\ DOMAIN gender_trend[k] = {"Year"} \cup sexes
                 /\ \A s \in sexes :
                      gender_trend[k][s] =
                          << Cardinality({ i \in DOMAIN olympics_df :
                                 /\ olympics_df[i].Year = gender_trend[k].Year
                                 /\ olympics_df[i].Sex = s }) >>

\* Stable insertion sort, descending by col: the re-sort of C7.
RECURSIVE StableSortDesc(_, _)
StableSortDesc(s, col) ==
    IF s = << >> THEN << >>
    ELSE LET done == StableSortDesc(SubSeq(s, 1, Len(s) - 1), col)
             x    == s[Len(s)]
             k    == Cardinality({ i \in DOMAIN done : done[i][col] >= x[col] })
         IN  SubSeq(done, 1, k) \o << x >> \o SubSeq(done, k + 1, Len(done))

\* t ranks the medal rows of the picked country (or of the whole table) by
\* the column by: at most 10 entries, all of them when there are fewer groups,
\* each with the number of medal rows of its group, in non-increasing order,
\* no omitted group above a returned one, and a fixed point of re-sorting: a
\* stable sort by count returns t, and sort_values, which may reorder equal
\* counts, returns the same column of counts.
Ranking(t, by, country) ==
    LET n(key) == Cardinality({ i \in WithMedal(olympics_df) :
                     /\ olympics_df[i][by] = key
                     /\ country # "Overall" => olympics_df[i].region = country })
        groups == { g \in { olympics_df[i][by] : i \in DOMAIN olympics_df } : n(g) > 0 }
        shown  == { t[k][by] : k \in DOMAIN t }
    IN  /\ Len(t) <= 10
        /\ Len(t) = Cardinality(shown)
        /\ Cardinality(groups) <= 10 => shown = groups
        /\ \A k \in DOMAIN t :
             /\ t[k][by] \in groups
             /\ t[k]["Total Medals"] = n(t[k][by])
        /\ \A k \in 1..(Len(t) - 1) : t[k]["Total Medals"] >= t[k + 1]["Total Medals"]
        /\ \A g \in groups \ shown : \A k \in DOMAIN t : n(g) <= t[k]["Total Medals"]
        /\ Cardinality(groups) > 10 => Len(t) = 10
        /\ StableSortDesc(t, "Total Medals") = t
        /\ \A r \in sort_values_desc(t, "Total Medals") :
             [ k \in DOMAIN r |-> r[k]["Total Medals"] ]
                 = [ k \in DOMAIN t |-> t[k]["Total Medals"] ]

\* C7: top_athletes and top_sports count medal rows only, hold at most 10
\* entries in non-increasing order of count, omit no group with more medals
\* than a returned one, and are unchanged by sorting them again.
C7_TopEntities ==
    /\ section = "top_athletes" => Ranking(top_athletes, "Name", athlete_country)
    /\ section = "top_sports" => Ranking(top_sports, "Sport", sports_country)

\* C7 witness: more than 10 athletes have medals, 10 are returned, and an
\* omitted athlete has as many medals as the last returned one; an athlete
\* with rows and no medal is in the table.
C7_Witness ==
    /\ section = "top_athletes"
    /\ athlete_country = "Overall"
    /\ Len(top_athletes) = 10
    /\ \E i \in WithMedal(olympics_df) :
         /\ \A k \in DOMAIN top_athletes : top_athletes[k].Name # olympics_df[i].Name
         /\ Cardinality({ j \in WithMedal(olympics_df) :
                olympics_df[j].Name = olympics_df[i].Name })
              = top_athletes[10]["Total Medals"]
    /\ \E i \in DOMAIN olympics_df : olympics_df[i].Medal = NaN

\* m holds the metrics of df: distinct athlete ids, distinct events, and the
\* number of rows with a medal.
MetricsOf(m, df) ==
    /\ m.Total_Athletes = Cardinality({ df[i].ID : i \in DOMAIN df })
    /\ m.Total_Events = Cardinality({ df[i].Event : i \in DOMAIN df })
    /\ m.Total_Medals = Cardinality(WithMedal(df))

\* C8: "Total Medals" is the number of rows with a medal, one per row and
\* not per medal or event; athletes and events are distinct counts.
C8_MedalRowCount ==
    /\ section = "filter" =>
           MetricsOf(metrics, IF show_overall THEN olympics_df ELSE filtered_df)
    /\ section = "advanced" => MetricsOf(advanced_metrics, filtered_advanced_df)

\* C8 witness: a subset of three rows, two athletes sharing the Silver of one
\* event and a third without a medal: 2 medals, 3 athletes.
C8_Witness ==
    /\ section = "filter"
    /\ ~show_overall
    /\ Len(filtered_df) = 3
    /\ \E i, j \in DOMAIN filtered_df :
         /\ filtered_df[i].ID # filtered_df[j].ID
         /\ filtered_df[i].Event = filtered_df[j].Event
         /\ filtered_df[i].Medal = "Silver"
         /\ filtered_df[j].Medal = "Silver"
    /\ \E i \in DOMAIN filtered_df : filtered_df[i].Medal = NaN
    /\ metrics.Total_Medals = 2
    /\ metrics.Total_Athletes = 3

\* C9: a row of athlete_events.csv whose NOC has no row in noc_regions.csv
\* is in the joined table with a missing region; no filtered subset holds a
\* row without a region; and the per-country tables have no row for a missing
\* region, each country's count being the medal rows of that country.
C9_UnmatchedRows ==
    /\ Len(olympics_df) = Len(athlete_events_csv)
    /\ \A j \in DOMAIN athlete_events_csv :
         (\A n \in DOMAIN noc_regions_csv :
              noc_regions_csv[n].NOC # athlete_events_csv[j].NOC)
         => /\ olympics_df[j].region = NaN
            /\ \A c \in DOMAIN athlete_events_csv[j] :
                 olympics_df[j][c] = athlete_events_csv[j][c]
    /\ (section = "filter" /\ ~show_overall) =>
           \A k \in DOMAIN filtered_df : filtered_df[k].region # NaN
    /\ section = "advanced" =>
           /\ \A k \in DOMAIN filtered_advanced_df :
                filtered_advanced_df[k].region # NaN
           /\ \A k \in DOMAIN medal_by_country :
                /\ medal_by_country[k].region # NaN
                /\ medal_by_country[k].Medal =
                     Cardinality({ i \in WithMedal(filtered_advanced_df) :
                        filtered_advanced_df[i].region = medal_by_country[k].region })
    /\ (section = "filter" /\ show_overall) =>
           \A k \in DOMAIN overall_tally :
             /\ overall_tally[k].region # NaN
             /\ overall_tally[k].Total =
                  Cardinality({ i \in WithMedal(olympics_df) :
                     olympics_df[i].region = overall_tally[k].region })

\* C9 witness: every country, year and sport is selected, the table has a
\* medal row without a region, and the subset is the table without it.
C9_Witness ==
    /\ section = "filter"
    /\ ~show_overall
    /\ HasUnmappedMedalRow
    /\ selected_years = Range(years_of(olympics_df))
    /\ selected_countries = Range(countries_of(olympics_df))
    /\ selected_sports = Range(sports_of(olympics_df))
    /\ selected_medal = "All"
    /\ Len(filtered_df) = Len(olympics_df) - 1
    /\ filtered_df # << >>

\* C10: filtered_advanced_df is the rows passing the advanced sets, whatever
\* the medal type and the overall flag, and its medal metric counts their
\* medal rows; when the advanced sets equal the sidebar sets and the overall
\* flag is off, filtered_df is contained in it and equals it for medal type
\* All.
C10_TwoFilters ==
    LET I == Matching(olympics_df, filter_years, filter_countries, filter_sports)
    IN  /\ ExactlyRows(filtered_advanced_df, olympics_df, I)
        /\ advanced_metrics.Total_Medals = Cardinality(I \cap WithMedal(olympics_df))
        /\ (~show_overall /\ filter_years = selected_years
               /\ filter_countries = selected_countries
               /\ filter_sports = selected_sports)
           => /\ Range(filtered_df) \subseteq Range(filtered_advanced_df)
              /\ selected_medal = "All" => filtered_df = filtered_advanced_df

\* C10 witness: medal type Gold with equal sets: the advanced subset is
\* larger than the sidebar subset and holds a Silver row and a row without a
\* medal.
C10_Witness ==
    /\ ~show_overall
    /\ selected_medal = "Gold"
    /\ filter_years = selected_years
    /\ filter_countries = selected_countries
    /\ filter_sports = selected_sports
    /\ filtered_df # << >>
    /\ Len(filtered_df) < Len(filtered_advanced_df)
    /\ \E k \in DOMAIN filtered_advanced_df : filtered_advanced_df[k].Medal = NaN
    /\ \E k \in DOMAIN filtered_advanced_df : filtered_advanced_df[k].Medal = "Silver"
    /\ advanced_metrics.Total_Medals > metrics.Total_Medals

====
